---- MODULE Spec2Model ----
(***************************************************************************)
(* Mega Miner (HTML5): the player movement / mining state machine          *)
(* (Player.tick, kpCharge, outOfFuel, resetPos), the generated tile store  *)
(* (GameMap.generate) and the dispatch of arrival events to the surface    *)
(* buildings (BuildingHandler.onPlayerMove).                               *)
(*                                                                         *)
(* Units.  Pixel positions are integers counted in 1/PX of a pixel, speeds *)
(* in 1/PX pixel per millisecond, fuel in 1/FuelUnit of a litre, the speed *)
(* multiplier in tenths, thickness in percent.  With these units every     *)
(* product and quotient the code computes on the values reached here is an *)
(* exact integer.  Sprites, animation flags (wasMoving, isStopping), the   *)
(* drill/boost modules and the DOM text updates are presentation only and  *)
(* are not part of the state.                                              *)
(***************************************************************************)
EXTENDS Integers, Sequences, FiniteSets, TLC

----------------------------------------------------------------------------
(* Bounds of the exploration *)

\* Half of the grid width in tiles: the game uses an even width (40).
HalfWidth == 3
\* Number of tile rows generated from the horizon row downward.
Depth == 2
\* Number of moves the player commits before the keys are released for good.
MaxMoves == 4
\* Cap of the pending fade-out callbacks counted (the flag keeps them at one).
MaxPending == 2
\* Number of building operations (arrivals, clicks, saves, loads) explored in a row.
MaxOps == 4
\* Number of waypoints the player adds.
MaxWaypoints == 2

----------------------------------------------------------------------------
(* Program constants *)

\* Position units per pixel (0.222 px/ms = 2220 units/ms).
PX == 10000
\* Fuel units per litre: 357000 = lcm(5100, 7000), so both drain rates are integers.
FuelUnit == 357000
\* new Grid(game, 50, 40, 40): tile size in pixels.
tileSizePx == 50
tileSize == tileSizePx * PX
widthGU == 2 * HalfWidth
horizonLineGU == 8
heightGU == horizonLineGU + Depth
horizonLine == horizonLineGU * tileSize
\* Player.defaultSpeed = 0.222 px/ms.
defaultSpeed == 2220
chargeReq == 20
\* Band of the coal layer: rows horizonLineGU+1 .. horizonLineGU+OreBandEnd-1.
OreBandEnd == 21
\* Fuel drained per millisecond, in fuel units: 1/5100 l when mining, 1/7000 l otherwise.
MiningRate == 70
TraverseRate == 51
\* The tolerance band under the surface row in which no fuel is drained, in pixels.
FuelBandPx == 5
\* Depth metric: round(((y / tileSize) - DepthOrigin) * DepthScale).
DepthOrigin == 7
DepthScale == 5
InitMoney == 300
InitMaxFuel == 10
InitTank == 0
\* Player.speedMultiplier = 1, in tenths.
InitSpeedMultiplier == 10
\* The capacity a new PlayerHold starts with.
InitCapacity == 10
\* new Grid(game, 50, 40, 40): the grid of a game session, in tiles.
sessionWidthGU == 40
sessionHeightGU == 40

\* Grid.borders (the pixel rectangle of the grid).
borders == [left |-> 0, top |-> 0, right |-> widthGU * tileSize, bottom |-> heightGU * tileSize]

\* Player.Direction, and the null that checkDirection returns for "no key".
UP == 0
DOWN == 1
LEFT == 2
RIGHT == 3
NoDir == -1
Directions == {UP, DOWN, LEFT, RIGHT}

\* The elapsed times (ms) a tick may carry: a normal frame and a long stall.
DeltaSet == {200, 60000}

\* The key sets the input handler may report as pressed.
KeySets == { {}, {"ArrowUp"}, {"s"}, {"ArrowLeft"}, {"d"}, {"ArrowDown", "ArrowRight"} }

----------------------------------------------------------------------------
(* Tiles *)

NoTile == "none"
BuildingKinds == {"Shop", "SaveStation", "SellingPost", "FuelStation", "Teleporter"}
TerrainKinds == {"Grass", "Dirt", "Coal"}

BuildingPropsOfTerrain(kind) ==
    [thickness |-> 25, value |-> 0, interactable |-> FALSE]

\* The properties of the building tile classes.
BuildingProps(kind) ==
    [thickness |-> 0, value |-> 0, interactable |-> TRUE]

\* The properties of the terrain tile classes.
TerrainProps(kind) ==
    CASE kind = "Grass" -> [thickness |-> 25, value |-> 0, interactable |-> FALSE]
      [] kind = "Dirt"  -> [thickness |-> 25, value |-> 0, interactable |-> FALSE]
      [] kind = "Coal"  -> [thickness |-> 50, value |-> 30, interactable |-> FALSE]

\* maptile.properties
Props(kind) ==
    IF kind \in BuildingKinds THEN BuildingProps(kind) ELSE TerrainProps(kind)

\* GameMap.surfaceBuildings: the building placed at surface column gx, if any.
surfaceBuildings(gx) ==
    CASE gx = 5  -> "Shop"
      [] gx = 10 -> "SaveStation"
      [] gx = 15 -> "SellingPost"
      [] gx = 25 -> "FuelStation"
      [] gx = 30 -> "Teleporter"
      [] OTHER   -> NoTile

\* The cells generation fills on a grid w wide and h high: the horizon row and
\* everything below it.
CellsOn(w, h) == (0 .. w - 1) \X (horizonLineGU .. h - 1)

\* The cells generation fills: the horizon row and everything below it.
Cells == CellsOn(widthGU, heightGU)

\* The cells of the coal layer on a grid w wide and h high.
OreBandOn(w, h) ==
    { c \in CellsOn(w, h) : c[2] >= horizonLineGU + 1 /\ c[2] < horizonLineGU + OreBandEnd }

\* The cells of the coal layer.
OreBand == OreBandOn(widthGU, heightGU)

\* GameMap.generate on a grid w wide and h high, for the set `ore` of band cells
\* whose random trial succeeded: the store fg_tiles.
GenerateOn(w, h, ore) ==
    [c \in CellsOn(w, h) |->
        IF c[2] = horizonLineGU
        THEN IF surfaceBuildings(c[1]) # NoTile THEN surfaceBuildings(c[1]) ELSE "Grass"
        ELSE IF c \in ore /\ c \in OreBandOn(w, h) THEN "Coal" ELSE "Dirt"]

\* GameMap.generate, for the set `ore` of band cells whose random trial succeeded.
Generate(ore) == GenerateOn(widthGU, heightGU, ore)

genTypeChildrenKept(n) == n + 1

\* GameMap.genType: the children the container holds for a cell that held n, once
\* the new tile replaced the stored one (removeChild of the old, addChild of the new).
genTypeChildren(n) == IF n > 0 THEN n - 1 + 1 ELSE 1

\* GameMap.generate: the number of children of the container `tiles` per cell.
GenerateChildrenOn(w, h, ore) ==
    [c \in CellsOn(w, h) |->
        IF c[2] # horizonLineGU /\ c \in ore /\ c \in OreBandOn(w, h)
        THEN genTypeChildren(1) ELSE 1]

\* map.fg_tiles[new Tile(gx, gy).toString()]: undefined for a key that is not stored.
TileAt(fg, c) == IF c \in DOMAIN fg THEN fg[c] ELSE NoTile

\* The seeds explored, and the band cells whose trial succeeds under each: the seeded
\* generator makes the trials a function of the seed.  No ore, or one coal next to
\* the spawn column.
Seeds == {1, 2}
OreOf(s) == IF s = 1 THEN {} ELSE { <<HalfWidth + 1, horizonLineGU + 1>> }
OreChoices == { OreOf(s) : s \in Seeds }

\* generate(seed): the arguments explored.  0 is what ungenerate leaves in map.seed;
\* NoSeed is the call without an argument.
NoSeed == -1
SeedArgs == {0} \cup Seeds

\* GameMap.generate, "Set & Create a Seed": this.seed = seed || Date.now().
seedOf(arg, now) == IF arg # 0 /\ arg # NoSeed THEN arg ELSE now

\* GameMap.generate: the entries of bg_tiles after the two pushes (bgdirt, bggrass).
GenerateBackground(n) == n + 2

\* No store recorded.
NoMap == << "none" >>

----------------------------------------------------------------------------
(* Grid addressing *)

\* Grid.getTilePositionFromPixelPosition: floor of pixel / tileSize.
pixelToGrid(px, py) == << px \div tileSize, py \div tileSize >>

\* Grid.getPixelPositionFromTilePosition: pixel = grid * tileSize.
gridToPixel(c) == << c[1] * tileSize, c[2] * tileSize >>

\* resetPos: the spawn position (horizontal centre of the grid, one tile above the horizon).
SpawnPos == << (widthGU * tileSize) \div 2, horizonLine - tileSize >>

\* The grid cell one step from `t` in direction `d` (the tileGx / tileGy arithmetic of tick).
Ahead(t, d) ==
    CASE d = UP    -> << t[1], t[2] - 1 >>
      [] d = DOWN  -> << t[1], t[2] + 1 >>
      [] d = LEFT  -> << t[1] - 1, t[2] >>
      [] d = RIGHT -> << t[1] + 1, t[2] >>
      [] OTHER     -> t

Min(a, b) == IF a < b THEN a ELSE b
Max(a, b) == IF a > b THEN a ELSE b

----------------------------------------------------------------------------
(* State *)

VARIABLES
    x, y,               \* player pixel position
    targetPos,          \* <<x, y>> of the committed destination
    tile,               \* player.tile, the grid cell recorded at the last arrival / reset
    facingDirection,
    moving, canMove,
    speed, speedMultiplier,
    charge,
    fuel, maxFuel, tank,
    money,
    minetile,           \* cell of the maptile being mined, <<>> for null
    fuelDebounce,
    recovery,           \* which deferred callback of outOfFuel is pending
    mapTiles,           \* player.hold.mapTiles: the cargo, a sequence of tile kinds
    fg_tiles,           \* map.fg_tiles: cell -> tile kind, NoTile once deleted
    tiles,              \* map.tiles: cell -> number of children the container holds for it
    pressedKeys,        \* game.inputHandler.pressedKeys, as polled by the latest tick
    currentUI, overlay, waypoints, storage,   \* BuildingHandler and localStorage
    items,              \* the entries of the building UI that is displayed
    pendingFadeOuts,    \* fade-out callbacks of outOfFuel scheduled and not yet run
    capacity,           \* player.hold.capacity
    seed,               \* map.seed
    bg_tiles,           \* map.bg_tiles: the number of entries of the list
    genArg,             \* the argument of the latest call of generate
    generated,          \* argument -> the store the latest generate(argument) produced
    ops,                \* number of building operations so far
    events,             \* the events the latest step dispatched, in order
    handled,            \* the building whose interaction the latest step invoked
    committed, arrived, \* whether the latest step committed a move / ran the arrival block
    clicked,            \* the UI entry the latest step clicked
    loadResult,         \* what loadGame returned in the latest step
    lastStep,           \* which operation ran last
    moves,              \* number of committed moves so far
    held                \* consecutive idle ticks the same direction has been held, from charge 0

playerVars == << x, y, targetPos, tile, facingDirection, moving, canMove, speed,
                 speedMultiplier, charge, fuel, maxFuel, tank, money, minetile,
                 fuelDebounce, recovery, mapTiles >>
handlerVars == << currentUI, overlay, waypoints, storage, items >>
worldVars == << capacity, seed, bg_tiles, genArg, generated, ops >>
logVars == << events, handled, committed, arrived, clicked, loadResult, lastStep, moves,
             held >>
vars == << playerVars, pendingFadeOuts, fg_tiles, tiles, pressedKeys, handlerVars, worldVars,
          logVars >>

NoCell == << >>
NoItem == [id |-> "none", price |-> 0, index |-> 0]
NoSave == [version |-> "none"]

----------------------------------------------------------------------------
(* Player: pure parts of tick *)

checkDirectionLeftFirst(keys) ==
    IF "ArrowUp" \in keys \/ "w" \in keys THEN UP
    ELSE IF "ArrowLeft" \in keys \/ "a" \in keys THEN LEFT
    ELSE IF "ArrowDown" \in keys \/ "s" \in keys THEN DOWN
    ELSE IF "ArrowRight" \in keys \/ "d" \in keys THEN RIGHT
    ELSE NoDir

\* Player.checkDirection: first match in the order UP, DOWN, LEFT, RIGHT.
checkDirection(keys) ==
    IF "ArrowUp" \in keys \/ "w" \in keys THEN UP
    ELSE IF "ArrowDown" \in keys \/ "s" \in keys THEN DOWN
    ELSE IF "ArrowLeft" \in keys \/ "a" \in keys THEN LEFT
    ELSE IF "ArrowRight" \in keys \/ "d" \in keys THEN RIGHT
    ELSE NoDir

kpChargeRunsAtReq(maptile, c) == maptile = NoTile \/ c >= chargeReq

kpChargeRunsChargedOnly(maptile, c) == c > chargeReq

\* kpCharge, first statement: whether the commit logic runs.
kpChargeRuns(maptile, c) == maptile = NoTile \/ c > chargeReq

kpChargeNextUncapped(c) == c + 1

\* kpCharge, second statement: the capped increment.
kpChargeNext(c) == IF c <= chargeReq THEN c + 1 ELSE c

ResetChargeKept(c) == c

\* tick, no key pressed: "Reset charge if no buttons being pressed".
ResetCharge(c) == IF c > 0 THEN 0 ELSE c

TargetUnclamped(d, tp) ==
    CASE d = UP    -> << tp[1], tp[2] - tileSize >>
      [] d = DOWN  -> << tp[1], tp[2] + tileSize >>
      [] d = LEFT  -> << tp[1] - tileSize, tp[2] >>
      [] d = RIGHT -> << tp[1] + tileSize, tp[2] >>

\* tick, target computation: one tile from the current target, clamped.
Target(d, tp) ==
    CASE d = UP    -> << tp[1], Max(tp[2] - tileSize, horizonLine - tileSize) >>
      [] d = DOWN  -> << tp[1], Min(tp[2] + tileSize, borders.bottom - tileSize) >>
      [] d = LEFT  -> << Max(tp[1] - tileSize, borders.left), tp[2] >>
      [] d = RIGHT -> << Min(tp[1] + tileSize, borders.right - tileSize), tp[2] >>

\* tick, "Calculate movement speed": thickness/100 * defaultSpeed * speedMultiplier
\* into a tile, defaultSpeed into an empty cell (speedMultiplier is in tenths).
CommitSpeed(maptile, sp, mult) ==
    IF maptile # NoTile
    THEN (Props(maptile).thickness * defaultSpeed * mult) \div 1000
    ELSE IF sp # defaultSpeed THEN defaultSpeed ELSE sp

\* tick, "update minetile": the maptile entered; cleared on an empty-cell move only
\* when the speed had to be reset.
CommitMinetile(maptile, cell, sp, mt) ==
    IF maptile # NoTile THEN cell
    ELSE IF sp # defaultSpeed THEN NoCell ELSE mt

DrainsBelowHorizon(py) == py > horizonLine

\* tick, "Reduce fuel level": whether this moving tick drains fuel.
Drains(py) == py > horizonLine - tileSize + FuelBandPx * PX

FuelDrainFlat(mt, delta) == TraverseRate * delta

\* tick, fuel drained by one tick of `delta` ms.
FuelDrain(mt, delta) == IF mt # NoCell THEN MiningRate * delta ELSE TraverseRate * delta

\* tick, "Perform the movement": advance along the facing axis, never past the target.
Advance(pos, tgt, d, sp, delta) ==
    IF pos = tgt THEN pos
    ELSE CASE d = UP    -> << pos[1], Max(pos[2] - sp * delta, tgt[2]) >>
           [] d = DOWN  -> << pos[1], Min(pos[2] + sp * delta, tgt[2]) >>
           [] d = LEFT  -> << Max(pos[1] - sp * delta, tgt[1]), pos[2] >>
           [] d = RIGHT -> << Min(pos[1] + sp * delta, tgt[1]), pos[2] >>

ArrivedStrict(d, pos, tgt) ==
    \/ d = UP    /\ pos[2] < tgt[2]
    \/ d = DOWN  /\ pos[2] > tgt[2]
    \/ d = LEFT  /\ pos[1] < tgt[1]
    \/ d = RIGHT /\ pos[1] > tgt[1]

\* tick, "Check for movement completion".
Arrived(d, pos, tgt) ==
    \/ d = UP    /\ pos[2] <= tgt[2]
    \/ d = DOWN  /\ pos[2] >= tgt[2]
    \/ d = LEFT  /\ pos[1] <= tgt[1]
    \/ d = RIGHT /\ pos[1] >= tgt[1]

\* tick, arrival: whether the tile found at the arrived-at cell is mined.
Mined(maptile) == maptile # NoTile /\ ~Props(maptile).interactable

ArrivalStoreKept(fg, t) == fg

\* tick, arrival: the tile store after the arrival at cell t.
ArrivalStore(fg, t) ==
    IF Mined(TileAt(fg, t)) THEN [fg EXCEPT ![t] = NoTile] ELSE fg

\* tick, arrival: the container's children after the arrival at cell t
\* (map.tiles.removeChild of the mined tile).
ArrivalChildren(kids, maptile, t) ==
    IF Mined(maptile) THEN [kids EXCEPT ![t] = IF @ > 0 THEN @ - 1 ELSE @] ELSE kids

\* PlayerHold.addMapTile: appends the tile, whatever the capacity.
addMapTile(cargo, maptile) == Append(cargo, maptile)

\* tick, arrival: the cargo after the arrival.
ArrivalCargo(cargo, maptile) ==
    IF Mined(maptile) THEN addMapTile(cargo, maptile) ELSE cargo

ArrivalEventsNoMove(maptile, t) ==
    IF Mined(maptile)
    THEN << [name |-> "tiledestroy", detail |-> t] >>
    ELSE << [name |-> "tilemove", detail |-> t] >>

\* tick, arrival: the events dispatched, in order.
ArrivalEvents(maptile, t) ==
    IF Mined(maptile)
    THEN << [name |-> "tiledestroy", detail |-> t], [name |-> "tilemove", detail |-> t] >>
    ELSE << [name |-> "tilemove", detail |-> t] >>

DepthOfFromHorizon(py) ==
    ((py - horizonLine) * DepthScale * 2 + tileSize) \div (2 * tileSize)

\* The depth metric shown and charged: Math.round(((y / tileSize) - 7) * 5).
DepthOf(py) ==
    ((py - DepthOrigin * tileSize) * DepthScale * 2 + tileSize) \div (2 * tileSize)

----------------------------------------------------------------------------
(* BuildingHandler: the listener of "tilemove" *)

NoUI == "null"

\* An entry of a building UI: what createUI binds to a click.
Item(id, price) == [id |-> id, price |-> price, index |-> 0]

\* The prices of the entries, as the handlers list them.
FuelUpgradePrice == 500
CargoUpgradePrice == 750
SpeedUpgradePrice == 1000
DrillUpgradePrice == 2000
AddWaypointPrice == 100
TeleportPrice == 50

\* BuildingHandler.createUI: the overlay is displayed with these entries.
createUI(h, entries) == [h EXCEPT !.overlay = TRUE, !.items = entries]

\* BuildingHandler.closeUI: the overlay is removed and currentUI is null again.
closeUI(h) == [h EXCEPT !.overlay = FALSE, !.items = << >>, !.currentUI = NoUI]

\* BuildingHandler.openShop
openShop(h) ==
    IF h.currentUI # NoUI THEN h
    ELSE createUI([h EXCEPT !.currentUI = "shop"],
                  << Item("fuel_upgrade", FuelUpgradePrice),
                     Item("cargo_upgrade", CargoUpgradePrice),
                     Item("speed_upgrade", SpeedUpgradePrice),
                     Item("drill_upgrade", DrillUpgradePrice) >>)

\* BuildingHandler.saveGame: the record written under 'megaminer_save'.
saveGame(h, p) ==
    [h EXCEPT !.storage = [money |-> p.money, fuel |-> p.fuel, maxFuel |-> p.maxFuel,
                           tank |-> p.tank, position |-> p.position, cargo |-> p.cargo,
                           waypoints |-> h.waypoints]]

\* item.value of a cargo entry: the value the tile was given.
ValueOf(kind) == Props(kind).value

SumValuesCounted(cargo) == Len(cargo)

\* mapTiles.reduce((sum, item) => sum + item.value, 0)
SumValues(cargo) ==
    LET RECURSIVE Sum(_)
        Sum(i) == IF i = 0 THEN 0 ELSE Sum(i - 1) + ValueOf(cargo[i])
    IN Sum(Len(cargo))

\* The number of entries of the cargo named `name`.
CountOf(cargo, name) == Cardinality({ i \in DOMAIN cargo : cargo[i] = name })

\* Object.keys(itemCounts): the names of the cargo, in the order they first occur.
NamesOf(cargo) ==
    LET RECURSIVE Names(_)
        Names(i) ==
            IF i = 0 THEN << >>
            ELSE IF \E j \in 1 .. i - 1 : cargo[j] = cargo[i]
                 THEN Names(i - 1)
                 ELSE Append(Names(i - 1), cargo[i])
    IN Names(Len(cargo))

\* BuildingHandler.openSellingPost: one entry per name, then "SELL ALL".
SellingItems(cargo) ==
    LET names == NamesOf(cargo)
    IN Append([k \in DOMAIN names |->
                  Item("sell_all", CountOf(cargo, names[k]) * ValueOf(names[k]))],
              Item("sell_all", SumValues(cargo)))

\* BuildingHandler.openSellingPost
openSellingPost(h, p) ==
    IF h.currentUI # NoUI THEN h
    ELSE IF Len(p.cargo) = 0 THEN h
    ELSE createUI([h EXCEPT !.currentUI = "selling"], SellingItems(p.cargo))

\* Math.ceil(fuelNeeded * 2) for fuelNeeded counted in fuel units.
RefuelCost(needed) == (2 * needed + FuelUnit - 1) \div FuelUnit

\* BuildingHandler.openFuelStation
openFuelStation(h, p) ==
    IF h.currentUI # NoUI THEN h
    ELSE IF p.maxFuel * FuelUnit - p.fuel <= 0
         THEN [h EXCEPT !.currentUI = "fuel"]
         ELSE createUI([h EXCEPT !.currentUI = "fuel"],
                       << Item("refuel", RefuelCost(p.maxFuel * FuelUnit - p.fuel)) >>)

\* BuildingHandler.openTeleporter: "add", then one entry per waypoint (index from 1 here).
openTeleporter(h) ==
    IF h.currentUI # NoUI THEN h
    ELSE createUI([h EXCEPT !.currentUI = "teleporter"],
                  << Item("add_waypoint", AddWaypointPrice) >>
                  \o [k \in DOMAIN h.waypoints |->
                         [id |-> "teleport", price |-> TeleportPrice, index |-> k]])

\* BuildingHandler.handleBuildingInteraction
handleBuildingInteraction(kind, h, p) ==
    LET h1 == [h EXCEPT !.handled = kind]
    IN CASE kind = "Shop"        -> openShop(h1)
         [] kind = "SaveStation" -> saveGame(h1, p)
         [] kind = "SellingPost" -> openSellingPost(h1, p)
         [] kind = "FuelStation" -> openFuelStation(h1, p)
         [] kind = "Teleporter"  -> openTeleporter(h1)
         [] OTHER                -> h1

\* BuildingHandler.onPlayerMove: looks the arrived-at cell up in the store as it is
\* when the event is dispatched.
onPlayerMove(fg, t, h, p) ==
    LET maptile == TileAt(fg, t)
    IN IF maptile # NoTile /\ Props(maptile).interactable
       THEN handleBuildingInteraction(maptile, h, p)
       ELSE h

AffordableAlways(price, funds) == TRUE

\* BuildingHandler.handlePurchase, the first test: `item.price > this.player.money`
\* rejects the click.
Affordable(price, funds) == ~(price > funds)

\* The upgrade steps of handlePurchase: maxFuel += 5, capacity += 5,
\* speedMultiplier += 0.2 (in tenths).
FuelUpgradeStep == 5
CargoUpgradeStep == 5
SpeedUpgradeStep == 2

\* BuildingHandler.handlePurchase: the handler state h and the player state p after a
\* click on `item`.
handlePurchase(item, h, p) ==
    IF ~Affordable(item.price, p.money) THEN [h |-> h, p |-> p]
    ELSE CASE item.id = "fuel_upgrade" ->
                [h |-> h,
                 p |-> [p EXCEPT !.maxFuel = @ + FuelUpgradeStep, !.money = @ - item.price]]
           [] item.id = "cargo_upgrade" ->
                [h |-> h,
                 p |-> [p EXCEPT !.capacity = @ + CargoUpgradeStep, !.money = @ - item.price]]
           [] item.id = "speed_upgrade" ->
                [h |-> h,
                 p |-> [p EXCEPT !.speedMultiplier = @ + SpeedUpgradeStep,
                                 !.money = @ - item.price]]
           [] item.id = "sell_all" ->
                [h |-> closeUI(h),
                 p |-> [p EXCEPT !.money = @ + SumValues(p.cargo), !.cargo = << >>]]
           [] item.id = "refuel" ->
                [h |-> h,
                 p |-> [p EXCEPT !.fuel = p.maxFuel * FuelUnit, !.money = @ - item.price]]
           [] item.id = "add_waypoint" ->
                [h |-> closeUI([h EXCEPT !.waypoints =
                                   Append(@, [name |-> Len(@) + 1, x |-> p.x, y |-> p.y])]),
                 p |-> [p EXCEPT !.money = @ - item.price]]
           [] item.id = "teleport" ->
                IF item.index \in DOMAIN h.waypoints
                THEN [h |-> closeUI(h),
                      p |-> [p EXCEPT !.x = h.waypoints[item.index].x,
                                      !.y = h.waypoints[item.index].y,
                                      !.targetPos = << h.waypoints[item.index].x,
                                                       h.waypoints[item.index].y >>,
                                      !.money = @ - item.price]]
                ELSE [h |-> h, p |-> p]
           [] OTHER -> [h |-> h, p |-> p]

----------------------------------------------------------------------------
(* SaveHandler *)

\* The format tag saveGame writes.
SaveVersion == "1.0.0"

\* SaveHandler.saveGame: the record written under 'megaminer_save'
\* (the timestamp is left out: nothing reads it).
SaveRecord(p, wps, sd) ==
    [version |-> SaveVersion,
     player  |-> [money |-> p.money, fuel |-> p.fuel, maxFuel |-> p.maxFuel,
                  tank |-> p.tank, position |-> [x |-> p.x, y |-> p.y],
                  speedMultiplier |-> p.speedMultiplier, cargo |-> p.cargo,
                  cargoCapacity |-> p.capacity],
     world   |-> [seed |-> sd, waypoints |-> wps]]

\* Whether record r has a field f (a field JSON leaves out reads as undefined).
Has(r, f) == f \in DOMAIN r

\* Whether the number r.f is truthy: present and not 0.
Truthy(r, f) == Has(r, f) /\ r[f] # 0

\* SaveHandler.loadGame: the stored record, or null.
loadGame(st) ==
    IF st = NoSave THEN [ok |-> FALSE, data |-> NoSave]
    ELSE IF ~Has(st, "version") \/ st.version = "" \/ ~Has(st, "player")
         THEN [ok |-> FALSE, data |-> NoSave]
         ELSE [ok |-> TRUE, data |-> st]

\* `saveData.player.f || d`
OrDefault(r, f, d) == IF Truthy(r, f) THEN r[f] ELSE d

\* SaveHandler.applySaveData: the player state and the waypoints after the record is
\* applied.  Reading saveData.world.waypoints of a record without `world` throws after
\* the player fields were assigned; the catch returns false.
applySaveData(sd, p, wps) ==
    LET pl == sd.player
        p1 == [p EXCEPT !.money = OrDefault(pl, "money", InitMoney),
                        !.fuel = OrDefault(pl, "fuel", p.maxFuel * FuelUnit),
                        !.maxFuel = OrDefault(pl, "maxFuel", InitMaxFuel),
                        !.tank = OrDefault(pl, "tank", InitTank),
                        !.speedMultiplier = OrDefault(pl, "speedMultiplier",
                                                      InitSpeedMultiplier)]
        p2 == IF Has(pl, "position")
              THEN [p1 EXCEPT !.x = pl.position.x, !.y = pl.position.y,
                              !.targetPos = << pl.position.x, pl.position.y >>,
                              !.tile = pixelToGrid(pl.position.x, pl.position.y)]
              ELSE p1
        p3 == IF Has(pl, "cargo") THEN [p2 EXCEPT !.cargo = pl.cargo] ELSE p2
        p4 == IF Truthy(pl, "cargoCapacity")
              THEN [p3 EXCEPT !.capacity = pl.cargoCapacity] ELSE p3
    IN  IF ~Has(sd, "world") THEN [ok |-> FALSE, p |-> p4, waypoints |-> wps]
        ELSE [ok |-> TRUE, p |-> p4,
              waypoints |-> IF Has(sd.world, "waypoints") THEN sd.world.waypoints ELSE wps]

----------------------------------------------------------------------------
(* Initial state: GameMap.generate, then the Player constructor *)

Init ==
    /\ \E s \in Seeds :
          /\ seed = s
          /\ fg_tiles = Generate(OreOf(s))
          /\ tiles = GenerateChildrenOn(widthGU, heightGU, OreOf(s))
    /\ x = SpawnPos[1] /\ y = SpawnPos[2]
    /\ targetPos = SpawnPos
    /\ tile = pixelToGrid(SpawnPos[1], SpawnPos[2])
    /\ facingDirection = RIGHT
    /\ moving = FALSE /\ canMove = TRUE
    /\ speed = defaultSpeed /\ speedMultiplier = InitSpeedMultiplier
    /\ charge = 0
    /\ maxFuel = InitMaxFuel /\ tank = InitTank
    /\ fuel = (InitMaxFuel * FuelUnit * (InitTank + 2)) \div 2
    /\ money = InitMoney
    /\ minetile = NoCell
    /\ fuelDebounce = FALSE /\ recovery = "none" /\ pendingFadeOuts = 0
    /\ mapTiles = << >> /\ capacity = InitCapacity
    /\ pressedKeys = {}
    /\ currentUI = NoUI /\ overlay = FALSE /\ waypoints = << >> /\ storage = NoSave
    /\ items = << >>
    /\ events = << >> /\ handled = NoTile
    /\ committed = FALSE /\ arrived = FALSE
    /\ clicked = NoItem /\ loadResult = "none"
    /\ lastStep = "init"
    /\ moves = 0 /\ held = 0 /\ ops = 0
    /\ bg_tiles = GenerateBackground(0) /\ genArg = NoSeed
    /\ generated = [a \in SeedArgs |-> NoMap]

----------------------------------------------------------------------------
(* Actions *)

\* Nothing was dispatched or committed by a step other than a tick.
QuietLog ==
    /\ events' = << >> /\ handled' = NoTile
    /\ committed' = FALSE /\ arrived' = FALSE
    /\ clicked' = NoItem /\ loadResult' = "none"
    /\ UNCHANGED << moves, held >>

outOfFuelProceedsAlways(debounce) == TRUE

\* Player.outOfFuel, first line: the trigger returns at once while the flag is set.
outOfFuelProceeds(debounce) == ~debounce

\* Player.outOfFuel, fade-out callback: this.fuel = this.maxFuel.
outOfFuelRefill(mf) == mf * FuelUnit

\* Player.outOfFuel, up to the scheduling of the fade-out.
OutOfFuel ==
    /\ IF outOfFuelProceeds(fuelDebounce)
       THEN /\ fuelDebounce' = TRUE
            /\ canMove' = FALSE
            /\ moving' = FALSE
            /\ recovery' = "fadeOut"
            /\ pendingFadeOuts' = Min(pendingFadeOuts + 1, MaxPending)
       ELSE UNCHANGED << fuelDebounce, canMove, moving, recovery, pendingFadeOuts >>
    /\ QuietLog
    /\ UNCHANGED << x, y, targetPos, tile, facingDirection, speed, speedMultiplier, charge,
                    fuel, maxFuel, tank, money, minetile, mapTiles, fg_tiles, tiles,
                    handlerVars >>

SamplingInTransit == canMove

SamplingUncontrolled == ~moving

\* Player.tick, "if (!this.moving && this.canMove)": whether this tick reads the keys.
Sampling == ~moving /\ canMove

\* Player.tick, first half (lines "if (!this.moving && this.canMove)"): direction
\* sampling, charging and the commit of a move.
CommitPhase(keys) ==
    LET idle      == Sampling
        direction == IF idle THEN checkDirection(keys) ELSE NoDir
        pressed   == direction # NoDir
        ahead     == Ahead(tile, direction)
        maptile   == IF pressed THEN TileAt(fg_tiles, ahead) ELSE NoTile
        runs      == pressed /\ kpChargeRuns(maptile, charge)
        tgt       == IF runs THEN Target(direction, targetPos) ELSE targetPos
        commit    == runs /\ tgt # << x, y >>
    IN  [ direction |-> direction,
          pressed   |-> pressed,
          commit    |-> commit,
          target    |-> tgt,
          facing    |-> IF pressed THEN direction ELSE facingDirection,
          charge    |-> IF pressed THEN kpChargeNext(charge)
                        ELSE IF idle THEN ResetCharge(charge) ELSE charge,
          moving    |-> moving \/ commit,
          speed     |-> IF commit THEN CommitSpeed(maptile, speed, speedMultiplier) ELSE speed,
          minetile  |-> IF commit THEN CommitMinetile(maptile, ahead, speed, minetile)
                        ELSE minetile ]

\* Player.tick, second half (lines "if (this.moving)"): fuel drain, movement and the
\* completion test, for the state c the first half left.
MovePhase(c, delta) ==
    LET pos1   == IF c.moving THEN Advance(<< x, y >>, c.target, c.facing, c.speed, delta)
                  ELSE << x, y >>
        arrive == c.moving /\ Arrived(c.facing, pos1, c.target)
        pos2   == IF arrive THEN c.target ELSE pos1
    IN  [ fuel   |-> IF c.moving /\ Drains(y) THEN fuel - FuelDrain(c.minetile, delta)
                     ELSE fuel,
          arrive |-> arrive,
          pos    |-> pos2,
          tile   |-> IF arrive THEN pixelToGrid(pos2[1], pos2[2]) ELSE tile ]

\* Player.tick, the arrival block: mining, the two events and the building listener.
ArrivalPhase(c, m) ==
    LET here  == TileAt(fg_tiles, m.tile)
        fg1   == ArrivalStore(fg_tiles, m.tile)
        kids  == ArrivalChildren(tiles, here, m.tile)
        cargo == ArrivalCargo(mapTiles, here)
        h0    == [currentUI |-> currentUI, overlay |-> overlay, waypoints |-> waypoints,
                  storage |-> storage, items |-> items, handled |-> NoTile]
        p1    == [money |-> money, fuel |-> m.fuel, maxFuel |-> maxFuel, tank |-> tank,
                  position |-> m.pos, cargo |-> cargo]
    IN  IF m.arrive
        THEN [ fg |-> fg1, tiles |-> kids, cargo |-> cargo,
               minetile |-> IF Mined(here) THEN NoCell ELSE c.minetile,
               events |-> ArrivalEvents(here, m.tile),
               h |-> onPlayerMove(fg1, m.tile, h0, p1) ]
        ELSE [ fg |-> fg_tiles, tiles |-> tiles, cargo |-> mapTiles, minetile |-> c.minetile,
               events |-> << >>, h |-> h0 ]

\* The state a tick with fuel > 0 leaves, from the results of its three parts.
Movement3(c, m, a) ==
    /\ x' = m.pos[1] /\ y' = m.pos[2]
    /\ targetPos' = c.target
    /\ tile' = m.tile
    /\ facingDirection' = c.facing
    /\ moving' = (c.moving /\ ~m.arrive)
    /\ speed' = c.speed
    /\ charge' = c.charge
    /\ fuel' = m.fuel
    /\ minetile' = a.minetile
    /\ mapTiles' = a.cargo
    /\ fg_tiles' = a.fg
    /\ tiles' = a.tiles
    /\ currentUI' = a.h.currentUI /\ overlay' = a.h.overlay
    /\ waypoints' = a.h.waypoints /\ storage' = a.h.storage
    /\ handled' = a.h.handled
    /\ events' = a.events
    /\ committed' = c.commit
    /\ arrived' = m.arrive
    /\ clicked' = NoItem /\ loadResult' = "none"
    /\ moves' = IF c.commit THEN moves + 1 ELSE moves
    /\ held' = IF ~c.pressed THEN 0
               ELSE IF charge = 0 THEN 1
               ELSE IF held > 0 /\ c.direction = facingDirection
                    THEN Min(held + 1, chargeReq + 2)
               ELSE 0
    /\ items' = a.h.items
    /\ UNCHANGED << canMove, speedMultiplier, maxFuel, tank, money, fuelDebounce,
                    recovery, pendingFadeOuts >>

Movement2(c, m) == Movement3(c, m, ArrivalPhase(c, m))

Movement1(c, delta) == Movement2(c, MovePhase(c, delta))

\* Player.tick with fuel > 0.
Movement(keys, delta) == Movement1(CommitPhase(keys), delta)

DepletedNever(f) == FALSE

\* Player.tick, "Check for out of fuel": if (this.fuel <= 0) return this.outOfFuel().
Depleted(f) == f <= 0

\* Player.tick, called by the ticker with the elapsed time while the input handler
\* reports `keys` as pressed.  The keys are read only by an idle, controllable player
\* with fuel left; once MaxMoves moves are committed no key is pressed any more.
Tick(keys, delta) ==
    /\ IF fuel > 0 /\ ~moving /\ canMove
       THEN moves < MaxMoves \/ keys = {}
       ELSE keys = {}
    /\ pressedKeys' = keys
    /\ lastStep' = "tick"
    /\ IF Depleted(fuel) THEN OutOfFuel ELSE Movement(keys, delta)
    /\ UNCHANGED worldVars

\* Player.tick while keys may be held at any time, also by a player in transit or in
\* the recovery sequence; once MaxMoves moves are committed an idle player finds none.
TransitTick(keys, delta) ==
    /\ (fuel > 0 /\ ~moving /\ canMove) => (moves < MaxMoves \/ keys = {})
    /\ pressedKeys' = keys
    /\ lastStep' = "tick"
    /\ IF Depleted(fuel) THEN OutOfFuel ELSE Movement(keys, delta)
    /\ UNCHANGED worldVars

\* outOfFuel, the fade-out callback: refill, charge the penalty, reset to the spawn.
FadeOutDoneAt(spawn) ==
    /\ pendingFadeOuts > 0
    /\ pendingFadeOuts' = pendingFadeOuts - 1
    /\ fuel' = outOfFuelRefill(maxFuel)
    /\ money' = money - (DepthOf(y) + maxFuel)
    /\ x' = spawn[1] /\ y' = spawn[2]
    /\ tile' = pixelToGrid(spawn[1], spawn[2])
    /\ targetPos' = spawn
    /\ facingDirection' = RIGHT
    /\ recovery' = "delay"
    /\ lastStep' = "fadeOut"
    /\ QuietLog /\ UNCHANGED << pressedKeys, worldVars >>
    /\ UNCHANGED << moving, canMove, speed, speedMultiplier, charge, maxFuel, tank,
                    minetile, fuelDebounce, mapTiles, fg_tiles, tiles, handlerVars >>

\* The fade-out callback on the grid of the movement model.
FadeOutDone == FadeOutDoneAt(SpawnPos)

\* outOfFuel, the setTimeout callback: starts the fade-in.
DelayDone ==
    /\ recovery = "delay"
    /\ recovery' = "fadeIn"
    /\ lastStep' = "delay"
    /\ QuietLog /\ UNCHANGED << pressedKeys, worldVars, pendingFadeOuts >>
    /\ UNCHANGED << x, y, targetPos, tile, facingDirection, moving, canMove, speed,
                    speedMultiplier, charge, fuel, maxFuel, tank, money, minetile,
                    fuelDebounce, mapTiles, fg_tiles, tiles, handlerVars >>

FadeInDoneKeepsDebounce ==
    /\ recovery = "fadeIn"
    /\ canMove' = TRUE
    /\ recovery' = "none"
    /\ lastStep' = "fadeIn"
    /\ QuietLog /\ UNCHANGED << pressedKeys, worldVars, pendingFadeOuts >>
    /\ UNCHANGED << x, y, targetPos, tile, facingDirection, moving, speed,
                    speedMultiplier, charge, fuel, maxFuel, tank, money, minetile,
                    fuelDebounce, mapTiles, fg_tiles, tiles, handlerVars >>

\* outOfFuel, the fade-in callback: movement is enabled again.
FadeInDone ==
    /\ recovery = "fadeIn"
    /\ fuelDebounce' = FALSE
    /\ canMove' = TRUE
    /\ recovery' = "none"
    /\ lastStep' = "fadeIn"
    /\ QuietLog /\ UNCHANGED << pressedKeys, worldVars, pendingFadeOuts >>
    /\ UNCHANGED << x, y, targetPos, tile, facingDirection, moving, speed,
                    speedMultiplier, charge, fuel, maxFuel, tank, money, minetile,
                    mapTiles, fg_tiles, tiles, handlerVars >>

TickStep == \E keys \in KeySets, delta \in DeltaSet : Tick(keys, delta)

Next ==
    \/ TickStep
    \/ FadeOutDone
    \/ DelayDone
    \/ FadeInDone

Spec == Init /\ [][Next]_vars

\* The ticker keeps firing and the timers of the recovery sequence expire.
FairSpec ==
    /\ Spec
    /\ WF_vars(TickStep)
    /\ WF_vars(FadeOutDone) /\ WF_vars(DelayDone) /\ WF_vars(FadeInDone)

\* The descent: the ticks of a player that only ever presses DOWN or nothing, with the
\* ticker firing and the timers of the recovery sequence expiring.
DescentKeySets == { {}, {"s"} }
DescentTick == \E keys \in DescentKeySets, delta \in DeltaSet : Tick(keys, delta)

DescentNext ==
    \/ DescentTick
    \/ FadeOutDone
    \/ DelayDone
    \/ FadeInDone

DescentSpec ==
    /\ Init /\ [][DescentNext]_vars
    /\ WF_vars(DescentTick)
    /\ WF_vars(FadeOutDone) /\ WF_vars(DelayDone) /\ WF_vars(FadeInDone)

----------------------------------------------------------------------------
(* The buildings of a session: arrival events at surface cells, clicks on the      *)
(* displayed UI, SaveHandler calls and the storage left by other sessions.         *)

\* The surface cells of the session grid that hold a building.
SessionBuildingCells ==
    { c \in CellsOn(sessionWidthGU, sessionHeightGU) :
        c[2] = horizonLineGU /\ surfaceBuildings(c[1]) # NoTile }

\* resetPos on the session grid.
SessionSpawn == << (sessionWidthGU * tileSize) \div 2, horizonLine - tileSize >>

\* The cells at which an arrival is explored: every building and the (empty) spawn cell.
ArriveCells == SessionBuildingCells \cup { pixelToGrid(SessionSpawn[1], SessionSpawn[2]) }

\* The player states a session starts the exploration from: money after out-of-fuel
\* penalties or sales, fuel after some travel (10 l, 3.5 l), cargo after some mining.
MoneyChoices == {0, 620}
FuelChoices == {InitMaxFuel * FuelUnit, (InitMaxFuel * FuelUnit * 35) \div 100}
CargoChoices == { << >>, << "Coal", "Dirt", "Coal" >> }

\* A player record as another session may have stored it.
ForeignPlayer ==
    [money |-> 50, fuel |-> 2 * FuelUnit, maxFuel |-> 15, tank |-> 1,
     position |-> [x |-> 2 * tileSize, y |-> horizonLine - tileSize],
     speedMultiplier |-> 12, cargo |-> << "Coal" >>, cargoCapacity |-> 15]

\* What the storage key may hold when a session finds it: a record of another format
\* version, a record without its world part, a record whose player part lacks fields,
\* and a complete record of a session that added a waypoint where it was saved.
ForeignRecords ==
    { [version |-> "0.9.0", player |-> ForeignPlayer,
       world |-> [seed |-> 7, waypoints |-> << >>]],
      [version |-> SaveVersion, player |-> ForeignPlayer,
       world |-> [seed |-> 7,
                  waypoints |-> << [name |-> 1, x |-> ForeignPlayer.position.x,
                                    y |-> ForeignPlayer.position.y] >>]],
      [version |-> SaveVersion, player |-> ForeignPlayer],
      [version |-> SaveVersion, player |-> [money |-> 50],
       world |-> [seed |-> 7, waypoints |-> << >>]] }

BuildingInit ==
    /\ \E s \in Seeds :
          /\ seed = s
          /\ fg_tiles = GenerateOn(sessionWidthGU, sessionHeightGU, OreOf(s))
          /\ tiles = GenerateChildrenOn(sessionWidthGU, sessionHeightGU, OreOf(s))
    /\ x = SessionSpawn[1] /\ y = SessionSpawn[2]
    /\ targetPos = SessionSpawn
    /\ tile = pixelToGrid(SessionSpawn[1], SessionSpawn[2])
    /\ facingDirection = RIGHT
    /\ moving = FALSE /\ canMove = TRUE
    /\ speed = defaultSpeed /\ speedMultiplier = InitSpeedMultiplier
    /\ charge = 0
    /\ maxFuel = InitMaxFuel /\ tank = InitTank
    /\ fuel \in FuelChoices
    /\ money \in MoneyChoices
    /\ minetile = NoCell
    /\ fuelDebounce = FALSE /\ recovery = "none" /\ pendingFadeOuts = 0
    /\ mapTiles \in CargoChoices /\ capacity = InitCapacity
    /\ pressedKeys = {}
    /\ currentUI = NoUI /\ overlay = FALSE /\ waypoints = << >> /\ storage = NoSave
    /\ items = << >>
    /\ events = << >> /\ handled = NoTile
    /\ committed = FALSE /\ arrived = FALSE
    /\ clicked = NoItem /\ loadResult = "none"
    /\ lastStep = "init"
    /\ moves = 0 /\ held = 0 /\ ops = 0
    /\ bg_tiles = GenerateBackground(0) /\ genArg = NoSeed
    /\ generated = [a \in SeedArgs |-> NoMap]

\* The player as the handlers read it.
PlayerRec ==
    [money |-> money, fuel |-> fuel, maxFuel |-> maxFuel, tank |-> tank,
     speedMultiplier |-> speedMultiplier, capacity |-> capacity, cargo |-> mapTiles,
     x |-> x, y |-> y, targetPos |-> targetPos, tile |-> tile]

\* The building handler as its methods read it.
HandlerRec ==
    [currentUI |-> currentUI, overlay |-> overlay, waypoints |-> waypoints,
     storage |-> storage, items |-> items, handled |-> NoTile]

\* The player fields a handler or a restore may assign.
SetPlayer(p) ==
    /\ money' = p.money /\ fuel' = p.fuel /\ maxFuel' = p.maxFuel /\ tank' = p.tank
    /\ speedMultiplier' = p.speedMultiplier /\ capacity' = p.capacity
    /\ mapTiles' = p.cargo
    /\ x' = p.x /\ y' = p.y /\ targetPos' = p.targetPos /\ tile' = p.tile

\* What no building operation touches.
BuildingFrame ==
    /\ pressedKeys' = {}
    /\ ops' = ops + 1
    /\ UNCHANGED << seed, bg_tiles, genArg, generated, moves, held, facingDirection, moving, canMove, speed, charge,
                    minetile, fuelDebounce, recovery, pendingFadeOuts, fg_tiles, tiles >>
    /\ events' = << >> /\ committed' = FALSE /\ arrived' = FALSE

\* The fuel the last tick of a move drains: none when the tick starts within the
\* surface band (y <= horizonLine - tileSize + 5), the drain of its frame otherwise.
ArriveDrains == {0} \cup { FuelDrain(NoCell, delta) : delta \in DeltaSet }

\* The last tick of a move whose target is cell c: Player.tick from the fuel drain
\* on, with the listeners of the events it dispatches.
Arrive(c, drain) ==
    /\ ops < MaxOps
    /\ fuel > 0 /\ canMove
    /\ LET cc == [direction |-> NoDir, pressed |-> FALSE, commit |-> FALSE,
                  target |-> gridToPixel(c), facing |-> facingDirection,
                  charge |-> charge, moving |-> TRUE, speed |-> speed,
                  minetile |-> minetile]
           m  == [fuel |-> fuel - drain, arrive |-> TRUE, pos |-> gridToPixel(c),
                  tile |-> c]
       IN Movement2(cc, m)
    /\ pressedKeys' = {}
    /\ lastStep' = "arrive"
    /\ ops' = ops + 1
    /\ UNCHANGED << capacity, seed, bg_tiles, genArg, generated >>

\* A click on entry i of the displayed UI: the listener createUI bound to it.
Click(i) ==
    /\ ops < MaxOps
    /\ overlay /\ i \in DOMAIN items
    /\ items[i].id = "add_waypoint" => Len(waypoints) < MaxWaypoints
    /\ LET r == handlePurchase(items[i], HandlerRec, PlayerRec)
       IN /\ SetPlayer(r.p)
          /\ currentUI' = r.h.currentUI /\ overlay' = r.h.overlay
          /\ waypoints' = r.h.waypoints /\ storage' = r.h.storage
          /\ items' = r.h.items
    /\ clicked' = items[i] /\ handled' = NoTile /\ loadResult' = "none"
    /\ lastStep' = "click"
    /\ BuildingFrame

\* A click on the Close button or on the overlay.
Close ==
    /\ ops < MaxOps
    /\ overlay
    /\ LET h == closeUI(HandlerRec)
       IN /\ currentUI' = h.currentUI /\ overlay' = h.overlay /\ items' = h.items
    /\ clicked' = NoItem /\ handled' = NoTile /\ loadResult' = "none"
    /\ lastStep' = "close"
    /\ BuildingFrame
    /\ UNCHANGED << money, fuel, maxFuel, tank, speedMultiplier, capacity, mapTiles,
                    x, y, targetPos, tile, waypoints, storage >>

\* SaveHandler.saveGame
Save ==
    /\ ops < MaxOps
    /\ storage' = SaveRecord(PlayerRec, waypoints, seed)
    /\ clicked' = NoItem /\ handled' = NoTile /\ loadResult' = "none"
    /\ lastStep' = "save"
    /\ BuildingFrame
    /\ UNCHANGED << money, fuel, maxFuel, tank, speedMultiplier, capacity, mapTiles,
                    x, y, targetPos, tile, currentUI, overlay, waypoints, items >>

\* SaveHandler.loadGame, then applySaveData on what it returned (autoLoad).
Load ==
    /\ ops < MaxOps
    /\ LET l == loadGame(storage)
           r == applySaveData(l.data, PlayerRec, waypoints)
       IN IF l.ok
          THEN /\ SetPlayer(r.p)
               /\ waypoints' = r.waypoints
               /\ loadResult' = IF r.ok THEN "applied" ELSE "failed"
          ELSE /\ UNCHANGED << money, fuel, maxFuel, tank, speedMultiplier, capacity,
                               mapTiles, x, y, targetPos, tile, waypoints >>
               /\ loadResult' = "null"
    /\ clicked' = NoItem /\ handled' = NoTile
    /\ lastStep' = "load"
    /\ BuildingFrame
    /\ UNCHANGED << currentUI, overlay, items, storage >>

\* The storage key holds a record this session did not write.
Foreign(rec) ==
    /\ ops < MaxOps
    /\ storage = NoSave
    /\ storage' = rec
    /\ clicked' = NoItem /\ handled' = NoTile /\ loadResult' = "none"
    /\ lastStep' = "foreign"
    /\ BuildingFrame
    /\ UNCHANGED << money, fuel, maxFuel, tank, speedMultiplier, capacity, mapTiles,
                    x, y, targetPos, tile, currentUI, overlay, waypoints, items >>

\* The arrivals of moves whose last tick starts within the surface band.
ArriveStep == \E c \in ArriveCells : Arrive(c, 0)
ClickStep == \E i \in 1 .. 5 : Click(i)
ForeignStep == \E rec \in ForeignRecords : Foreign(rec)

BuildingNext ==
    \/ ArriveStep
    \/ ClickStep
    \/ Close
    \/ Save
    \/ Load
    \/ ForeignStep

BuildingSpec == BuildingInit /\ [][BuildingNext]_vars

----------------------------------------------------------------------------
(* The Shop while the tank runs dry: arrivals at the Shop, clicks on its UI, the   *)
(* ticks of the session and the timers of the recovery sequence.                   *)

ShopCell == CHOOSE c \in SessionBuildingCells : surfaceBuildings(c[1]) = "Shop"

ShopArrive == \E drain \in ArriveDrains : Arrive(ShopCell, drain)

\* A tick of the session with no key pressed.
SessionTick == \E delta \in DeltaSet : Tick({}, delta)

\* The fade-out callback of the session: resetPos on the session grid.
SessionFadeOutDone == FadeOutDoneAt(SessionSpawn)

ShopNext ==
    \/ ShopArrive
    \/ ClickStep
    \/ Close
    \/ SessionTick
    \/ SessionFadeOutDone
    \/ DelayDone
    \/ FadeInDone

ShopSpec ==
    /\ BuildingInit /\ [][ShopNext]_vars
    /\ WF_vars(SessionTick)
    /\ WF_vars(SessionFadeOutDone) /\ WF_vars(DelayDone) /\ WF_vars(FadeInDone)

----------------------------------------------------------------------------
(* Properties *)

\* The cells generation gives to a building.
BuildingCells == { c \in Cells : c[2] = horizonLineGU /\ surfaceBuildings(c[1]) # NoTile }

TileMove(t) == [name |-> "tilemove", detail |-> t]
TileDestroy(t) == [name |-> "tiledestroy", detail |-> t]

\* The direction the latest tick resolved from the keys it polled.
Resolved == checkDirection(pressedKeys)

\* Whether cell c lies inside the world borders of the movement (top bound: one tile
\* above the horizon; left, right, bottom: the grid).
InsideWorld(c) ==
    /\ c[1] >= 0 /\ c[1] <= widthGU - 1
    /\ c[2] >= horizonLineGU - 1 /\ c[2] <= heightGU - 1

(* C1 *)
\* The move from the surface row down onto building cell c has been committed.
C1_SetOff(c) ==
    /\ moving /\ canMove /\ fuel > 0
    /\ facingDirection = DOWN
    /\ tile = << c[1], c[2] - 1 >>
    /\ targetPos = gridToPixel(c)

\* The player has arrived on building cell c and the building's handler has run.
C1_Arrival(c) ==
    /\ ~moving /\ tile = c /\ << x, y >> = gridToPixel(c)
    /\ TileMove(c) \in { events[i] : i \in DOMAIN events }
    /\ handled = TileAt(fg_tiles, c)

\* C1: Buildings can be walked onto: a player on the surface row directly above a
\* building who has held DOWN until the move committed (fuel > 0, canMove true)
\* eventually arrives on the building's cell, with moving false again, a tilemove
\* event emitted and the building's interaction handler invoked.
C1_BuildingsCanBeWalkedOnto ==
    \A c \in BuildingCells : C1_SetOff(c) ~> C1_Arrival(c)

(* C2 *)
\* C2: When a move arrives at a cell holding a mineable tile, that tick removes the
\* tile from fg_tiles exactly once and adds exactly one entry for it to the cargo;
\* afterwards the cell is empty and no other cell of fg_tiles has changed.
C2_ArrivalMinesOnce ==
    [][ (arrived' /\ Mined(TileAt(fg_tiles, tile')))
        => /\ fg_tiles' = [fg_tiles EXCEPT ![tile'] = NoTile]
           /\ mapTiles' = Append(mapTiles, fg_tiles[tile'])
           /\ TileAt(fg_tiles', tile') = NoTile ]_vars

\* An arrival has just mined a tile: the destroy event is out and the cargo holds it.
C2_Witness ==
    /\ arrived /\ Len(events) = 2
    /\ Len(mapTiles) >= 1
    /\ TileAt(fg_tiles, tile) = NoTile /\ tile \in Cells

C4_ArrivalEvents ==
    [][ /\ arrived' =>
            \/ /\ events' = << TileMove(tile') >>
               /\ fg_tiles' = fg_tiles
            \/ /\ events' = << TileDestroy(tile'), TileMove(tile') >>
               /\ Mined(TileAt(fg_tiles, tile'))
               /\ fg_tiles' # fg_tiles
        /\ ~arrived' => (events' = << >> /\ fg_tiles' = fg_tiles) ]_vars

\* An arrival below the surface has just mined a tile: destroy, then move, same cell.
C4_Witness ==
    /\ arrived
    /\ events = << TileDestroy(tile), TileMove(tile) >>
    /\ tile[2] > horizonLineGU

(* C5 *)
\* C5: In any tick in which a move commits, either the cell adjacent to the player's
\* current tile in the resolved direction holds no tile in fg_tiles, or charge was
\* strictly greater than chargeReq at the start of that tick.
C5_CommitNeedsChargeOrEmpty ==
    [][ committed'
        => \/ TileAt(fg_tiles, Ahead(tile, facingDirection')) = NoTile
           \/ charge > chargeReq ]_vars

\* A move into an occupied cell has just been committed.
C5_Witness ==
    /\ committed /\ moving
    /\ minetile # NoCell /\ TileAt(fg_tiles, minetile) # NoTile
    /\ charge = chargeReq + 1

(* C6 *)
\* C6: In every reachable state 0 <= charge <= chargeReq + 1.
C6_ChargeInRange == charge >= 0 /\ charge <= chargeReq + 1

\* The charge has reached its cap while pushing against a tile.
C6_Witness ==
    /\ charge = chargeReq + 1 /\ ~moving /\ ~committed
    /\ Resolved # NoDir /\ TileAt(fg_tiles, Ahead(tile, Resolved)) # NoTile

(* C7 *)
\* C7 as claimed: after any tick in which no movement key is pressed and the player is
\* not moving, charge equals 0.
C7_ResetWhenNoKey ==
    [][ (lastStep' = "tick" /\ pressedKeys' = {} /\ ~moving) => charge' = 0 ]_vars

\* C7 as amended: after any tick that starts with fuel > 0 and canMove true, in which
\* no movement key is pressed and the player is not moving, charge equals 0.
C7_ResetWhenNoKeyAndControllable ==
    [][ (lastStep' = "tick" /\ pressedKeys' = {} /\ ~moving /\ canMove /\ fuel > 0)
        => charge' = 0 ]_vars

\* A tick without keys has reset the charge of a player that had charged up to mine.
C7_Witness ==
    /\ lastStep = "tick" /\ pressedKeys = {} /\ ~moving /\ canMove /\ fuel > 0
    /\ ~arrived /\ charge = 0
    /\ Len(mapTiles) >= 1

(* C8 *)
\* C8: If the player is idle (not moving, canMove true, fuel > 0), a direction key is
\* held and the adjacent cell in that direction holds no tile and lies inside the
\* world borders, the move commits in that very tick for every value of charge.
C8_EmptyCellCommitsAtOnce ==
    [][ ( /\ lastStep' = "tick"
          /\ ~moving /\ canMove /\ fuel > 0
          /\ checkDirection(pressedKeys') # NoDir
          /\ TileAt(fg_tiles, Ahead(tile, checkDirection(pressedKeys'))) = NoTile
          /\ InsideWorld(Ahead(tile, checkDirection(pressedKeys'))) )
        => /\ committed'
           /\ targetPos' = gridToPixel(Ahead(tile, checkDirection(pressedKeys')))
           /\ moving' \/ arrived' ]_vars

\* A move into an empty cell was committed by a tick that started with charge 0.
C8_Witness ==
    /\ committed /\ charge = 1 /\ minetile = NoCell

(* C9 *)
\* C9: Starting idle with charge = 0 next to a thickness-50 mineable tile on the
\* right, holding RIGHT on consecutive ticks commits the move on tick 21: on that tick
\* the target becomes the cell on the right, moving becomes true and
\* speed = 0.5 * defaultSpeed * speedMultiplier.
C9_CommitOnTick21 ==
    [][ ( /\ held' = chargeReq + 1
          /\ facingDirection' = RIGHT
          /\ TileAt(fg_tiles, Ahead(tile, RIGHT)) # NoTile
          /\ Props(TileAt(fg_tiles, Ahead(tile, RIGHT))).thickness = 50 )
        => /\ committed'
           /\ targetPos' = gridToPixel(Ahead(tile, RIGHT))
           /\ moving' \/ arrived'
           /\ speed' * 20 = defaultSpeed * speedMultiplier ]_vars

(* C10 *)
\* targetPos and the position lie within the world borders of the movement.
C10_InBounds ==
    /\ targetPos[1] >= borders.left /\ targetPos[1] <= borders.right - tileSize
    /\ targetPos[2] >= horizonLine - tileSize /\ targetPos[2] <= borders.bottom - tileSize
    /\ x >= borders.left /\ x <= borders.right - tileSize
    /\ y >= horizonLine - tileSize /\ y <= borders.bottom - tileSize

\* The target moved along the axis of direction d only, one tileSize or up to the limit.
C10_OneAxis(d, old, new) ==
    CASE d = UP    -> /\ new[1] = old[1]
                      /\ \/ new[2] = old[2] - tileSize
                         \/ new[2] = horizonLine - tileSize /\ new[2] > old[2] - tileSize
      [] d = DOWN  -> /\ new[1] = old[1]
                      /\ \/ new[2] = old[2] + tileSize
                         \/ new[2] = borders.bottom - tileSize /\ new[2] < old[2] + tileSize
      [] d = LEFT  -> /\ new[2] = old[2]
                      /\ \/ new[1] = old[1] - tileSize
                         \/ new[1] = borders.left /\ new[1] > old[1] - tileSize
      [] d = RIGHT -> /\ new[2] = old[2]
                      /\ \/ new[1] = old[1] + tileSize
                         \/ new[1] = borders.right - tileSize /\ new[1] < old[1] + tileSize
      [] OTHER     -> FALSE

\* C10: For every direction and every tile-store state, a commit changes targetPos on
\* exactly one axis by exactly one tileSize in the chosen direction unless clamped,
\* and targetPos always satisfies horizonLine - tileSize <= y <= borders.bottom -
\* tileSize and borders.left <= x <= borders.right - tileSize; the player's position
\* never leaves those bounds either.
C10_CommitOneTileClamped ==
    /\ [] C10_InBounds
    /\ [][ /\ committed' => C10_OneAxis(facingDirection', targetPos, targetPos')
           /\ (lastStep' = "tick" /\ ~committed') => targetPos' = targetPos ]_vars

\* A committed move has taken the target to the right-hand limit of the world.
C10_Witness ==
    /\ committed
    /\ targetPos[1] = borders.right - tileSize

(* C11 *)
\* C11: Fuel changes during a tick only by draining, and it drains (strictly) if and
\* only if the player is moving in that tick and its y is greater than
\* horizonLine - tileSize + 5; a player idling or travelling along the surface row
\* never loses fuel.
C11_FuelDrainsOnlyBelowSurface ==
    [][ lastStep' = "tick"
        => /\ fuel' <= fuel
           /\ (fuel' < fuel)
                <=> ((moving' \/ arrived') /\ y > horizonLine - tileSize + FuelBandPx * PX)
           /\ (~(moving' \/ arrived') \/ y = horizonLine - tileSize) => fuel' = fuel ]_vars

\* A tick has drained fuel from a player travelling through an empty cell below the
\* surface row.
C11_Witness ==
    /\ lastStep = "tick" /\ moving /\ minetile = NoCell
    /\ y > horizonLine - tileSize + FuelBandPx * PX
    /\ fuel < maxFuel * FuelUnit /\ fuel > 0

(* C12 *)
\* C12: An out-of-fuel trigger while a recovery is in progress is a no-op (fuel, money,
\* position, flags and the scheduled callbacks unchanged), so never more than one
\* fade-out is pending; the penalty and the reset to spawn happen only in the fade-out
\* callback, which finds fuel <= 0 and leaves fuel > 0: once per depletion.
C12_RetriggerIsNoOp ==
    /\ [] (pendingFadeOuts <= 1)
    /\ [][ /\ (lastStep' = "tick" /\ fuel <= 0 /\ fuelDebounce)
              => UNCHANGED << fuel, money, x, y, targetPos, tile, canMove, moving,
                              fuelDebounce, recovery, pendingFadeOuts >>
           /\ (money' # money \/ lastStep' = "fadeOut")
              => /\ lastStep' = "fadeOut" /\ fuel <= 0 /\ fuel' > 0
                 /\ money' = money - (DepthOf(y) + maxFuel)
                 /\ << x', y' >> = SpawnPos ]_vars

\* A tick ran with fuel <= 0 while the recovery was already in progress.
C12_Witness ==
    /\ lastStep = "tick" /\ fuel <= 0 /\ fuelDebounce
    /\ pendingFadeOuts = 1 /\ events = << >> /\ ops = 0
    /\ y > horizonLine - tileSize

(* C13 *)
\* C13: The tick that first observes fuel <= 0 sets canMove = false and moving = false
\* in that tick, and, the timers firing, the player eventually reaches a state with
\* canMove = true and fuelDebounce = false; whenever the recovery completes,
\* fuel = maxFuel, whatever ticks, key presses and building-UI purchases interleave
\* with the timers.
C13_RecoveryCompletes ==
    /\ [][ (lastStep' = "tick" /\ fuel <= 0 /\ ~fuelDebounce)
           => (~canMove' /\ ~moving' /\ fuelDebounce') ]_vars
    /\ [][ (~(canMove /\ ~fuelDebounce) /\ canMove' /\ ~fuelDebounce')
           => fuel' = maxFuel' * FuelUnit ]_vars
    /\ (fuel <= 0) ~> (canMove /\ ~fuelDebounce /\ fuel = maxFuel * FuelUnit)

----------------------------------------------------------------------------
(* C14 *)

\* The "tilemove" events of a tick.
TileMoves(evs) == SelectSeq(evs, LAMBDA e : e.name = "tilemove")

\* C14: an arrival at a building cell while a building UI is open triggers no building
\* action (no second UI, no save, sale, refuel, purchase or teleport); an arrival at a
\* building cell with no UI open dispatches one "tilemove" and runs that cell's action.
C14_OpenUIBlocksBuildingActions ==
    [][ (arrived' /\ tile' \in SessionBuildingCells)
        => /\ Len(TileMoves(events')) = 1
           /\ IF currentUI # NoUI
              THEN UNCHANGED << currentUI, overlay, items, storage, waypoints, money,
                                fuel, maxFuel, mapTiles, capacity, speedMultiplier >>
              ELSE handled' = fg_tiles[tile'] ]_vars

----------------------------------------------------------------------------
(* C15 *)

\* C15: a click on an entry whose price exceeds the player's money leaves money, fuel,
\* maxFuel, cargo, capacity, speedMultiplier, waypoints, the position and the UI as they
\* were; a click that takes money away takes exactly the price of an entry the player
\* could pay, so money does not go below zero by a purchase.
C15_UnaffordableIsRejected ==
    [][ lastStep' = "click"
        => /\ clicked'.price > money
              => UNCHANGED << money, fuel, maxFuel, tank, mapTiles, capacity,
                              speedMultiplier, waypoints, x, y, targetPos, tile,
                              currentUI, overlay, items, storage >>
           /\ money' < money
              => /\ clicked'.price <= money
                 /\ money' = money - clicked'.price
                 /\ money' >= 0 ]_vars

\* An entry the player cannot pay has just been clicked.
C15_Witness ==
    /\ lastStep = "click" /\ clicked.id = "fuel_upgrade" /\ clicked.price > money
    /\ currentUI = "shop" /\ maxFuel = InitMaxFuel

----------------------------------------------------------------------------
(* C16 *)

\* What a cargo is worth: each kind of tile that can be mined, counted and valued.
CargoWorth(cargo) ==
    CountOf(cargo, "Grass") * ValueOf("Grass")
    + CountOf(cargo, "Dirt") * ValueOf("Dirt")
    + CountOf(cargo, "Coal") * ValueOf("Coal")

\* C16: when the sell-all action runs, money grows by exactly the sum of the values of
\* the cargo entries held at that moment and the cargo list is left empty; fuel, the
\* position and the map are unchanged.
C16_SellAllPaysTheSum ==
    [][ (lastStep' = "click" /\ clicked'.id = "sell_all" /\ clicked'.price <= money)
        => /\ money' = money + CargoWorth(mapTiles)
           /\ mapTiles' = << >>
           /\ UNCHANGED << fuel, x, y, targetPos, tile, fg_tiles, tiles >> ]_vars

\* A cargo of two Coal and one Dirt has just been sold.
C16_Witness ==
    /\ lastStep = "click" /\ clicked.id = "sell_all"
    /\ clicked.price = 2 * ValueOf("Coal") + ValueOf("Dirt")
    /\ money \in { m + clicked.price : m \in MoneyChoices }
    /\ mapTiles = << >> /\ currentUI = NoUI

----------------------------------------------------------------------------
(* C17 *)

\* C17: SaveHandler.saveGame followed by loadGame and applySaveData reproduces money,
\* fuel, maxFuel, tank, speedMultiplier, the position, the cargo and the waypoints
\* exactly as they were when saved, whatever their values.
C17_SaveRestoreRoundTrip ==
    [][ (lastStep = "save" /\ lastStep' = "load")
        => /\ loadResult' = "applied"
           /\ UNCHANGED << money, fuel, maxFuel, tank, speedMultiplier, x, y, mapTiles,
                           waypoints >> ]_vars

----------------------------------------------------------------------------
(* C18 *)

\* Whether a stored record carries the format tag saveGame writes and every part and
\* field saveGame writes.
WellFormed(st) ==
    /\ Has(st, "version") /\ st.version = SaveVersion
    /\ Has(st, "player") /\ Has(st, "world")
    /\ \A f \in {"money", "fuel", "maxFuel", "tank", "position", "speedMultiplier",
                 "cargo", "cargoCapacity"} : Has(st.player, f)
    /\ Has(st.world, "seed") /\ Has(st.world, "waypoints")

\* C18: a stored record with another version tag or with a required field missing is
\* rejected (loadGame returns null), and loading either applies the record or leaves
\* the player and the building handler as they were.
C18_MalformedIsRejected ==
    [][ (lastStep' = "load" /\ storage # NoSave /\ ~WellFormed(storage))
        => /\ loadResult' = "null"
           /\ UNCHANGED << money, fuel, maxFuel, tank, speedMultiplier, capacity,
                           mapTiles, x, y, targetPos, tile, waypoints, currentUI,
                           overlay, items >> ]_vars

----------------------------------------------------------------------------
(* C19 *)

\* C19: the record an arrival at the Save Station writes is the versioned save record
\* of the player as the arrival left it (format tag, money, fuel, maxFuel, tank,
\* speedMultiplier, position, cargo, cargo capacity, world seed, waypoints), and
\* loadGame on that storage accepts and returns it.
C19_SaveStationWritesTheSaveRecord ==
    [][ (arrived' /\ handled' = "SaveStation")
        => /\ storage' = SaveRecord(PlayerRec, waypoints, seed)'
           /\ loadGame(storage').ok
           /\ loadGame(storage').data = storage' ]_vars

----------------------------------------------------------------------------
(* C20 *)

\* C20: after generate on the session grid the horizon row holds exactly one tile of
\* each of the five building types, at columns 5, 10, 15, 25 and 30, and grass at every
\* other column; every cell below the horizon row down to the map height holds exactly
\* one tile, dirt or ore; no foreground tile exists above the horizon row.
C20_GeneratedLayout ==
    lastStep = "init"
    => /\ DOMAIN fg_tiles
            = (0 .. sessionWidthGU - 1) \X (horizonLineGU .. sessionHeightGU - 1)
       /\ DOMAIN tiles = DOMAIN fg_tiles
       /\ \A c \in DOMAIN tiles : tiles[c] = 1
       /\ fg_tiles[<< 5, horizonLineGU >>] = "Shop"
       /\ fg_tiles[<< 10, horizonLineGU >>] = "SaveStation"
       /\ fg_tiles[<< 15, horizonLineGU >>] = "SellingPost"
       /\ fg_tiles[<< 25, horizonLineGU >>] = "FuelStation"
       /\ fg_tiles[<< 30, horizonLineGU >>] = "Teleporter"
       /\ \A kind \in BuildingKinds :
             Cardinality({ c \in DOMAIN fg_tiles : fg_tiles[c] = kind }) = 1
       /\ \A gx \in (0 .. sessionWidthGU - 1) \ {5, 10, 15, 25, 30} :
             fg_tiles[<< gx, horizonLineGU >>] = "Grass"
       /\ \A c \in DOMAIN fg_tiles :
             c[2] > horizonLineGU => fg_tiles[c] \in {"Dirt", "Coal"}

\* A generated session map with a coal tile in the band.
C20_Witness ==
    /\ lastStep = "init" /\ seed = 2
    /\ \E c \in DOMAIN fg_tiles : fg_tiles[c] = "Coal" /\ tiles[c] = 1
    /\ fg_tiles[<< 30, horizonLineGU >>] = "Teleporter"
    /\ fg_tiles[<< 0, sessionHeightGU - 1 >>] = "Dirt"

----------------------------------------------------------------------------
(* The map: calls of generate and ungenerate on the grid of the movement model *)

\* An empty store, an empty container.
NoTiles == [c \in {} |-> NoTile]

\* GameMap.generate: the children of the container per cell, on top of the children
\* `kids` it held: one addChild per cell, then genType for the cells of `ore`.
GenerateChildrenOver(kids, ore) ==
    [c \in Cells |->
        LET n == (IF c \in DOMAIN kids THEN kids[c] ELSE 0) + 1
        IN IF c[2] # horizonLineGU /\ c \in ore /\ c \in OreBand
           THEN genTypeChildren(n) ELSE n]

\* What neither generate nor ungenerate touches.
MapFrame ==
    /\ ops' = ops + 1
    /\ QuietLog
    /\ UNCHANGED << playerVars, pendingFadeOuts, pressedKeys, handlerVars, capacity >>

\* GameMap.generate(arg), called when Date.now() is `now`.
GenerateCall(arg, now) ==
    /\ ops < MaxOps
    /\ seed' = seedOf(arg, now)
    /\ bg_tiles' = GenerateBackground(bg_tiles)
    /\ fg_tiles' = Generate(OreOf(seedOf(arg, now)))
    /\ tiles' = GenerateChildrenOver(tiles, OreOf(seedOf(arg, now)))
    /\ genArg' = arg
    /\ generated' = [generated EXCEPT ![arg] = Generate(OreOf(seedOf(arg, now)))]
    /\ lastStep' = "generate"
    /\ MapFrame

\* GameMap.ungenerate: the entries of bg_tiles are removed from the stage, the list
\* itself is left as it is.
Ungenerate ==
    /\ ops < MaxOps
    /\ seed' = 0
    /\ bg_tiles' = bg_tiles
    /\ fg_tiles' = NoTiles
    /\ tiles' = NoTiles
    /\ UNCHANGED << genArg, generated >>
    /\ lastStep' = "ungenerate"
    /\ MapFrame

GenerateStep == \E arg \in SeedArgs, now \in Seeds : GenerateCall(arg, now)

MapNext ==
    \/ GenerateStep
    \/ Ungenerate

MapSpec == Init /\ [][MapNext]_vars

----------------------------------------------------------------------------
(* C21 *)

\* C21: generate is deterministic in its seed: for every seed value s, generate(s)
\* stores s as the map's seed, and two generations with the same s produce the same
\* fg_tiles (the same tile kind at every coordinate).
C21_GenerateIsDeterministic ==
    [][ lastStep' = "generate"
        => /\ seed' = genArg'
           /\ generated[genArg'] # NoMap => fg_tiles' = generated[genArg'] ]_vars

----------------------------------------------------------------------------
(* C22 *)

\* C22: ungenerate is an idempotent reset: after it fg_tiles is empty, the tile
\* container has no children, bg_tiles is empty and seed is 0, as before the first
\* generation; a second ungenerate changes nothing; generate after ungenerate yields
\* a map with nothing left over from the earlier generation.
C22_UngenerateResets ==
    [][ /\ lastStep' = "ungenerate"
           => /\ DOMAIN fg_tiles' = {} /\ DOMAIN tiles' = {}
              /\ bg_tiles' = 0 /\ seed' = 0
        /\ (lastStep = "ungenerate" /\ lastStep' = "ungenerate")
           => UNCHANGED << fg_tiles, tiles, bg_tiles, seed >>
        /\ (lastStep = "ungenerate" /\ lastStep' = "generate")
           => /\ bg_tiles' = GenerateBackground(0)
              /\ \A c \in DOMAIN tiles' : tiles'[c] = 1 ]_vars

----------------------------------------------------------------------------
(* C27 *)

\* The tile the destination cell of the move in progress holds.  Nothing but the
\* arrival of that move changes the cell, so this is what it held at the commit.
DestinationTile == TileAt(fg_tiles, pixelToGrid(targetPos'[1], targetPos'[2]))

\* C27: whenever a tick drains fuel, the amount is delta/5100 if the destination cell
\* of the move in progress held a mineable tile when the move committed and delta/7000
\* if that cell was empty; a mining target left over from an earlier move never makes
\* a plain traversal cost the mining rate.
C27_DrainRateFollowsDestination ==
    [][ (lastStep' = "tick" /\ fuel' < fuel)
        => /\ Mined(DestinationTile)
              => fuel - fuel' \in { MiningRate * delta : delta \in DeltaSet }
           /\ DestinationTile = NoTile
              => fuel - fuel' \in { TraverseRate * delta : delta \in DeltaSet } ]_vars

\* A plain traversal into an emptied cell of the grass row has just arrived, no mining
\* target is held, and the fuel used since the last fill is not a whole number of
\* mining-rate drains: some tick of it was charged at the traversal rate.
C27_Witness ==
    /\ lastStep = "tick" /\ arrived /\ Len(events) = 1
    /\ minetile = NoCell
    /\ tile[2] = horizonLineGU
    /\ fuel > 0
    /\ (maxFuel * FuelUnit - fuel) % MiningRate # 0

----------------------------------------------------------------------------
(* C23 *)

\* C23: in every reachable state the fuel level lies between 0 and maxFuel, whatever
\* ticks (of any delta), purchases, recoveries and save restores came before.
C23_FuelWithinBounds == 0 <= fuel /\ fuel <= maxFuel * FuelUnit

----------------------------------------------------------------------------
(* The keyboard: ticks under every combination of held keys *)

\* The eight keys checkDirection looks for, and one it does not.
DirectionKeys == { "ArrowUp", "w", "ArrowDown", "s", "ArrowLeft", "a", "ArrowRight", "d" }
OtherKeys == { " " }
AllKeySets == SUBSET (DirectionKeys \cup OtherKeys)

\* One frame of the ticker while the input handler reports `keys` as pressed: any set
\* of keys goes down on an uncharged player, stays down while the charge builds up and
\* is released once the first move has committed.
KeyTick ==
    \E keys \in AllKeySets, delta \in DeltaSet :
        /\ IF moves = 0 THEN charge = 0 \/ keys = pressedKeys ELSE keys = {}
        /\ Tick(keys, delta)

KeyNext == KeyTick

KeySpec == Init /\ [][KeyNext]_vars

----------------------------------------------------------------------------
(* C24 *)

\* The keys of a direction, and the directions in the order of their priority.
KeysOf(d) ==
    CASE d = UP    -> { "ArrowUp", "w" }
      [] d = DOWN  -> { "ArrowDown", "s" }
      [] d = LEFT  -> { "ArrowLeft", "a" }
      [] d = RIGHT -> { "ArrowRight", "d" }
Priority == << UP, DOWN, LEFT, RIGHT >>

\* C24: for every set of pressed keys (each is held in some state) checkDirection
\* gives the first direction in the order UP, DOWN, LEFT, RIGHT one of whose two keys
\* is pressed, and null exactly when none of the eight keys is pressed; the tick of an idle player faces that direction,
\* or keeps its facing and drops its charge when the result is null.
C24_FirstPressedDirectionWins ==
    /\ \A i \in 1..4 :
          (/\ KeysOf(Priority[i]) \cap pressedKeys # {}
           /\ \A j \in 1..(i - 1) : KeysOf(Priority[j]) \cap pressedKeys = {})
          => checkDirection(pressedKeys) = Priority[i]
    /\ checkDirection(pressedKeys) = NoDir <=> pressedKeys \cap DirectionKeys = {}
    /\ checkDirection(pressedKeys) \in Directions \cup {NoDir}
    /\ (lastStep = "tick" /\ moves = 0 /\ ~moving /\ fuel > 0)
       => \/ /\ pressedKeys \cap DirectionKeys # {}
             /\ facingDirection = checkDirection(pressedKeys)
             /\ KeysOf(facingDirection) \cap pressedKeys # {}
             /\ \A d \in Directions :
                   d < facingDirection => KeysOf(d) \cap pressedKeys = {}
          \/ /\ pressedKeys \cap DirectionKeys = {}
             /\ charge = 0

\* Two keys of different directions and a foreign key are held by an idle player that
\* faces the direction of higher priority although it started facing another.
C24_Witness ==
    /\ lastStep = "tick" /\ moves = 0 /\ ~moving
    /\ pressedKeys = { "a", "ArrowDown", " " }
    /\ facingDirection = DOWN
    /\ charge > 0

----------------------------------------------------------------------------
(* Keys held in transit *)

TransitKeySets == { {}, {"ArrowDown"}, {"d"}, {"w", "a"} }
TransitStep == \E keys \in TransitKeySets, delta \in DeltaSet : TransitTick(keys, delta)

TransitNext ==
    \/ TransitStep
    \/ FadeOutDone
    \/ DelayDone
    \/ FadeInDone

TransitSpec == Init /\ [][TransitNext]_vars

----------------------------------------------------------------------------
(* C25 *)

\* A committed move has not arrived: the position is short of the target.
InTransit == << x, y >> # targetPos

\* C25, as stated: from the tick a move commits until the tick it arrives, targetPos
\* and facingDirection do not change, whatever keys are pressed or released.
C25_NoChangeUntilArrival ==
    [][ InTransit => /\ targetPos' = targetPos
                     /\ facingDirection' = facingDirection ]_vars

\* C25, amended: while a move is in progress no step changes targetPos or
\* facingDirection, and a tick that starts with moving = true reads no key (facing,
\* target and charge are as they were, whatever is held); a move that has committed
\* and not arrived loses its target and facing only to the reset of the out-of-fuel
\* recovery, after the trigger has stopped it.
C25_NoRedirectionMidTransit ==
    [][ /\ moving => /\ targetPos' = targetPos
                     /\ facingDirection' = facingDirection
                     /\ lastStep' = "tick" => charge' = charge /\ ~committed'
        /\ (InTransit /\ (targetPos' # targetPos \/ facingDirection' # facingDirection))
           => /\ ~moving /\ fuelDebounce
              /\ lastStep' = "fadeOut" ]_vars

\* A tick that started in transit has left the player in transit while keys of another
\* direction than the one faced are held.
C25_Witness ==
    /\ lastStep = "tick" /\ moving /\ ~committed
    /\ InTransit
    /\ checkDirection(pressedKeys) # NoDir
    /\ checkDirection(pressedKeys) # facingDirection

----------------------------------------------------------------------------
(* C26 *)

\* The step of a tick along the axis and sense of direction d.
Along(d) ==
    CASE d = UP    -> << 0, y - y' >>
      [] d = DOWN  -> << 0, y' - y >>
      [] d = LEFT  -> << x - x', 0 >>
      [] d = RIGHT -> << x' - x, 0 >>

\* The distance left to the target along direction d before the tick's step.
Remaining(d) ==
    CASE d = UP    -> y - targetPos'[2]
      [] d = DOWN  -> targetPos'[2] - y
      [] d = LEFT  -> x - targetPos'[1]
      [] d = RIGHT -> targetPos'[1] - x

\* C26: a tick with fuel left in which the player is moving changes the position only
\* on the axis of facingDirection, towards targetPos, by speed * delta or by what is
\* left to the target if that is less, never past it; when the position reaches the
\* target in that tick it equals targetPos, moving becomes false and the tile is
\* pixelToGrid of the position.
C26_AdvanceIsClampedToTarget ==
    [][ (lastStep' = "tick" /\ fuel > 0 /\ (moving \/ committed'))
        => /\ \E delta \in DeltaSet :
                 LET step == Min(speed' * delta, Remaining(facingDirection'))
                 IN  /\ step >= 0
                     /\ CASE facingDirection' = UP    -> x' = x /\ y' = y - step
                           [] facingDirection' = DOWN  -> x' = x /\ y' = y + step
                           [] facingDirection' = LEFT  -> y' = y /\ x' = x - step
                           [] facingDirection' = RIGHT -> y' = y /\ x' = x + step
           /\ (<< x', y' >> = targetPos') <=> arrived'
           /\ arrived' => /\ ~moving'
                          /\ tile' = pixelToGrid(x', y')
           /\ ~arrived' => moving' /\ tile' = tile ]_vars

\* A move that was under way when the tick began has arrived: the player stands on
\* its target, one cell from where the move began, and is not moving.
C26_Witness ==
    /\ lastStep = "tick" /\ arrived /\ ~committed
    /\ ~moving
    /\ << x, y >> = targetPos
    /\ tile = pixelToGrid(x, y)
    /\ tile # pixelToGrid(SpawnPos[1], SpawnPos[2])

----------------------------------------------------------------------------
(* C28 *)

\* C28: a tick that starts with fuel <= 0 does no movement processing (position,
\* targetPos, facingDirection, charge, fg_tiles and the cargo are as before, whatever
\* keys are held and whether or not a move was in progress), and the tick after one
\* whose drain took the fuel to 0 or below is the out-of-fuel trigger: it stops the
\* player and starts the recovery before anything moves again.
C28_EmptyTankSkipsMovement ==
    [][ (lastStep' = "tick" /\ fuel <= 0)
        => /\ UNCHANGED << x, y, targetPos, tile, facingDirection, charge, fg_tiles,
                           tiles, mapTiles, speed, minetile, fuel >>
           /\ ~committed' /\ ~arrived'
           /\ ~moving' /\ ~canMove' /\ fuelDebounce'
           /\ recovery' # "none" ]_vars

\* The trigger has just fired on a player with a move in progress and keys held: it
\* stands short of its target with the tank empty.
C28_Witness ==
    /\ lastStep = "tick" /\ fuel <= 0
    /\ fuelDebounce /\ ~moving
    /\ << x, y >> # targetPos
    /\ pressedKeys # {}

----------------------------------------------------------------------------
(* C29 *)

\* d is (py / tileSize - 7) * 5 rounded to the nearest integer, halves upwards.
IsRoundedDepth(d, py) ==
    LET twice == 2 * DepthScale * (py - DepthOrigin * tileSize)
    IN  /\ (2 * d - 1) * tileSize <= twice
        /\ twice < (2 * d + 1) * tileSize

\* C29: the recovery step (the fade-out callback) sets fuel to maxFuel, takes
\* depth + maxFuel from the money, depth being round((y / tileSize - 7) * 5) for the y
\* at which the player ran out, and puts the player at the spawn: x at the horizontal
\* centre of the grid, y one tile above the horizon line, targetPos equal to the
\* position, the tile recomputed from it, facing RIGHT.
C29_RecoveryStep ==
    [][ lastStep' = "fadeOut"
        => /\ fuel' = maxFuel * FuelUnit
           /\ maxFuel' = maxFuel
           /\ IsRoundedDepth(money - money' - maxFuel, y)
           /\ 2 * x' = widthGU * tileSize
           /\ y' = horizonLine - tileSize
           /\ targetPos' = << x', y' >>
           /\ tile' = pixelToGrid(x', y')
           /\ facingDirection' = RIGHT ]_vars

\* The recovery step has just run for a player that ran out below the spawn row: it
\* stands at the spawn with a full tank and has paid more than maxFuel.
C29_Witness ==
    /\ lastStep = "fadeOut"
    /\ << x, y >> = SpawnPos
    /\ fuel = maxFuel * FuelUnit
    /\ money < InitMoney - maxFuel

----------------------------------------------------------------------------
(* C30 *)

\* The recovery is under way: the trigger has fired and the fade-in callback has not.
Recovering == fuelDebounce

\* C30: however ticks and key presses interleave with the three deferred callbacks
\* (fade-out, delay, fade-in), between the out-of-fuel trigger and the last callback
\* no move commits, no tile leaves fg_tiles, nothing is added to the cargo, and the
\* position changes only by the reset to the spawn, once; the callbacks run in the
\* order fade-out, delay, fade-in, one of each.
C30_RecoveryIsAtomicForMovement ==
    [][ Recovering
        => /\ ~committed' /\ ~arrived' /\ ~moving'
           /\ fg_tiles' = fg_tiles /\ tiles' = tiles
           /\ mapTiles' = mapTiles
           /\ moves' = moves
           /\ (<< x', y' >> # << x, y >>)
              => (lastStep' = "fadeOut" /\ << x', y' >> = SpawnPos)
           /\ lastStep' = "fadeOut" => (recovery = "fadeOut" /\ recovery' = "delay")
           /\ lastStep' = "delay"   => (recovery = "delay" /\ recovery' = "fadeIn")
           /\ lastStep' = "fadeIn"  => (recovery = "fadeIn" /\ ~Recovering')
           /\ lastStep' = "tick"    => UNCHANGED << x, y, targetPos, recovery, fuel, money >>
           /\ pendingFadeOuts <= 1 ]_vars

\* The fade-in of a recovery is running, direction keys are held in a tick and the
\* player, reset to the spawn with a full tank, has not moved.
C30_Witness ==
    /\ Recovering /\ recovery = "fadeIn"
    /\ lastStep = "tick"
    /\ checkDirection(pressedKeys) # NoDir
    /\ << x, y >> = SpawnPos /\ ~moving
    /\ fuel > 0

----------------------------------------------------------------------------
(* The coal layer of a session map: generate from the emptied map, for seeds whose  *)
(* draws come out at most 7.5 at chosen cells                                       *)

\* The seeds explored on the session grid, past those of Seeds.
BandSeeds == (Cardinality(Seeds) + 1) .. (Cardinality(Seeds) + 2 ^ 7)

\* The cells at which the draw Math.random() * 100 <= 7.5 made for the cell comes out
\* true under seed s (for a cell the coal loop does not visit: would come out true):
\* a subset of seven cells of the session grid, one subset per seed.
TrialsOf(s) ==
    LET cells == << << 0, horizonLineGU >>,
                    << 0, horizonLineGU + 1 >>,
                    << sessionWidthGU \div 2, horizonLineGU + 10 >>,
                    << sessionWidthGU - 1, horizonLineGU + OreBandEnd - 1 >>,
                    << 0, horizonLineGU + OreBandEnd >>,
                    << sessionWidthGU - 1, horizonLineGU + OreBandEnd >>,
                    << sessionWidthGU \div 2, sessionHeightGU - 1 >> >>
        code  == s - Cardinality(Seeds) - 1
    IN  { cells[i] : i \in { j \in 1..7 : (code \div 2 ^ (j - 1)) % 2 = 1 } }

\* GameMap.generate() on the emptied session map, called when Date.now() is a seed
\* of BandSeeds.
SessionGenerate ==
    \E now \in BandSeeds :
        /\ ops < MaxOps
        /\ DOMAIN fg_tiles = {}
        /\ seed' = seedOf(NoSeed, now)
        /\ bg_tiles' = GenerateBackground(bg_tiles)
        /\ fg_tiles' = GenerateOn(sessionWidthGU, sessionHeightGU, TrialsOf(now))
        /\ tiles' = GenerateChildrenOn(sessionWidthGU, sessionHeightGU, TrialsOf(now))
        /\ UNCHANGED << genArg, generated >>
        /\ lastStep' = "generate"
        /\ MapFrame

BandSpec == BuildingInit /\ [][SessionGenerate \/ Ungenerate]_vars

----------------------------------------------------------------------------
(* C31 *)

\* The rows of the band as stated: horizonLineGU + 1 through horizonLineGU + 21.
StatedBandRows == (horizonLineGU + 1) .. (horizonLineGU + 21)

\* C31: after generate, ore lies only in the 21 rows starting one below the horizon,
\* every cell of those rows whose draw succeeded holds ore (so ore is possible in
\* each of the rows, cell by cell), and every cell holds exactly one tile: the ore
\* took the place of the dirt in the store and in the container.
C31_OreBand ==
    (lastStep = "generate" /\ seed \in BandSeeds)
    => /\ \A c \in DOMAIN fg_tiles :
             fg_tiles[c] = "Coal" => (c[2] \in StatedBandRows /\ c \in TrialsOf(seed))
       /\ \A c \in TrialsOf(seed) :
             c[2] \in StatedBandRows => TileAt(fg_tiles, c) = "Coal"
       /\ \A c \in DOMAIN fg_tiles : TileAt(tiles, c) = 1

----------------------------------------------------------------------------
(* C32 *)

\* The tick that follows reads direction d and runs the commit logic of kpCharge with
\* a clamped target equal to the position: the player presses into a world border.
PressesIntoBorder(d) ==
    /\ ~Depleted(fuel) /\ Sampling
    /\ d # NoDir
    /\ kpChargeRuns(TileAt(fg_tiles, Ahead(tile, d)), charge)
    /\ Target(d, targetPos) = << x, y >>

\* C32: a tick in which the clamped target of the move equals the current position
\* changes nothing of the player: position, targetPos, moving, facingDirection, speed
\* and charge are as before.
C32_BorderPressIsNoOp ==
    [][ (lastStep' = "tick" /\ PressesIntoBorder(checkDirection(pressedKeys')))
        => UNCHANGED << x, y, targetPos, moving, facingDirection, speed, charge >> ]_vars

----------------------------------------------------------------------------
(* C33 *)

\* n is ceil(2 * needed) for `needed` counted in fuel units.
IsCeilOfTwice(n, needed) ==
    /\ (n - 1) * FuelUnit < 2 * needed
    /\ 2 * needed <= n * FuelUnit

\* C33: a refuel purchase that is not rejected sets fuel to maxFuel and takes
\* ceil(2 * (maxFuel - fuel)) coins for the fuel level at the moment of the click, so
\* a refuel of a full tank (a second click in the same open UI included) takes nothing.
C33_RefuelChargesWhatIsAdded ==
    [][ (lastStep' = "click" /\ clicked'.id = "refuel" /\ clicked'.price <= money)
        => /\ fuel' = maxFuel * FuelUnit
           /\ IsCeilOfTwice(money - money', maxFuel * FuelUnit - fuel) ]_vars

----------------------------------------------------------------------------
(* The walk to a building: the player presses RIGHT, DOWN or nothing, the ticker   *)
(* keeps firing and the timers of the recovery sequence expire.                    *)

ApproachTick == \E keys \in { {}, {"d"}, {"s"} }, delta \in DeltaSet : Tick(keys, delta)

ApproachSpec ==
    /\ Init /\ [][ApproachTick \/ FadeOutDone \/ DelayDone \/ FadeInDone]_vars
    /\ WF_vars(ApproachTick)
    /\ WF_vars(FadeOutDone) /\ WF_vars(DelayDone) /\ WF_vars(FadeInDone)

----------------------------------------------------------------------------
(* C34 *)

\* C34: every committed move terminates: from any state with moving = true, as ticks
\* keep arriving, moving eventually becomes false (the move arrives or the fuel runs
\* out), whatever tile, mineable, building or none, holds the destination cell.
C34_MovesTerminate == moving ~> ~moving

----------------------------------------------------------------------------
(* C35 *)

\* C35: whenever the player is at rest and controllable (moving false, canMove true)
\* its position equals targetPos, is tile-aligned, and its recorded tile is
\* pixelToGrid of the position, after every operation: ticks, teleport purchases,
\* out-of-fuel resets, save restores.
C35_RestingPlayerIsAligned ==
    (~moving /\ canMove)
    => /\ << x, y >> = targetPos
       /\ x % tileSize = 0 /\ y % tileSize = 0
       /\ tile = pixelToGrid(x, y)

----------------------------------------------------------------------------
(* C36 *)

\* C36: a move into a cell holding a mineable tile commits only when the key of its
\* direction has been held for more than chargeReq consecutive idle ticks, counted
\* from a charge of 0; charge gathered by pressing another direction, by pressing
\* into a border, by crossing empty cells or before an earlier commit does not count.
C36_PushForceIsPerDestination ==
    [][ (committed' /\ Mined(TileAt(fg_tiles, Ahead(tile, facingDirection'))))
        => held' > chargeReq ]_vars

(* C37 *)

\* C37: the player's money is never negative, in every reachable state, across
\* purchases, sales, teleports and out-of-fuel penalties.
C37_MoneyNeverNegative == money >= 0

(* C38 *)

\* C38: whenever currentUI is non-null a building overlay is displayed, so the UI can
\* be closed and currentUI can return to null; no building interaction (arriving at
\* the Fuel Station with a full tank, at the Selling Post with empty cargo) leaves
\* currentUI set without an overlay.
C38_OpenUIHasOverlay == currentUI # NoUI => overlay

(* C39 *)

\* C39: the affordability check never blocks a sale: for every money value and every
\* non-empty cargo, choosing a sell entry at the Selling Post performs the sale.
C39_SaleIsNeverRejected ==
    [][ (lastStep' = "click" /\ clicked'.id = "sell_all" /\ mapTiles # << >>)
        => /\ mapTiles' = << >>
           /\ money' = money + CargoWorth(mapTiles) ]_vars

(* C40 *)

\* C40: the out-of-fuel guard flags stay consistent in every reachable state:
\* fuelDebounce is true exactly when canMove is false, and a moving player can move.
C40_GuardFlagsConsistent ==
    /\ fuelDebounce <=> ~canMove
    /\ moving => canMove

\* A tick with a key held finds the recovery under way: it began while a move was in
\* transit, and the player stands between two cells with both flags set.
C40_Witness ==
    /\ lastStep = "tick" /\ pressedKeys # {}
    /\ fuelDebounce /\ ~canMove /\ ~moving
    /\ targetPos # << x, y >>

============================================================================
